---------------------------- MODULE Spec2Model ----------------------------
(***************************************************************************)
(* Model of the fitness-studio core: the domain operations of              *)
(* ExternalAPITool (create client, create order, process payment) running   *)
(* as concurrent requests against the shared document store, and the       *)
(* query-type normaliser and dispatcher of MongoDBTool.                    *)
(*                                                                         *)
(* Every store call (find_one, insert_one, update_one) is one atomic step  *)
(* of the calling request; requests interleave between store calls.  Text  *)
(* that the code matches by substring (service names, query types) is a    *)
(* sequence of one-character strings; text that the code only compares for *)
(* equality (emails, phones) is a plain string.  Money is counted in mills *)
(* (1/1000 of a currency unit), so 100.00 is 100000 and 10% of a whole     *)
(* number of cents is exact.                                               *)
(***************************************************************************)
EXTENDS Integers, Sequences, FiniteSets, TLC

VARIABLES
    clients,      \* clients collection: sequence of documents, _id = position
    orders,       \* orders collection
    payments,     \* payments collection
    courses,      \* courses collection
    classes,      \* classes collection
    attendance,   \* attendance collection
    uniqueEmail,  \* TRUE when create_indexes has built the unique index on clients.email
    pc,           \* per request slot: the store call the request is about to make
    args,         \* per request slot: the arguments of the call in progress
    locals,       \* per request slot: the local variables of the handler
    result,       \* per request slot: what the last call returned
    budget,       \* number of calls that may still start (bounds the run)
    sync_client,  \* DatabaseManager.sync_client: "None", or the MongoClient, "open" or "closed"
    sync_database, \* DatabaseManager.sync_database: "None" or "database"
    got,          \* the last get_sync_database call: what it met and what came of it
    query_type,       \* MongoDBTool._run: the query_type argument
    normalized_query, \* MongoDBTool._run: what _normalize_query_type returned
    dispatched,       \* MongoDBTool._run: the method that was called
    tool_kwargs,      \* MongoDBTool._run: the keyword arguments of the call
    tool_result       \* MongoDBTool._run: what the call returned

store == <<clients, orders, payments, courses, classes, attendance>>
query == <<query_type, normalized_query, dispatched, tool_kwargs, tool_result>>
handle == <<sync_client, sync_database, got>>
vars == <<clients, orders, payments, courses, classes, attendance, uniqueEmail,
          pc, args, locals, result, budget, sync_client, sync_database, got,
          query_type, normalized_query, dispatched, tool_kwargs, tool_result>>

-----------------------------------------------------------------------------
(* Bounds of the model *)

\* calls started in a run of each specification
MaxCalls == 2
MaxClientCalls == 3
MaxOrderCalls == 2
MaxPaymentCalls == 3
\* words in a query type built from Words
MaxWords == 2
\* attendance records in the store of the attendance analytics
MaxAttendance == 2
\* payments in the store of the revenue analytics
MaxPayments == 2
MaxEnquiryCalls == 1
MaxFaultCalls == 1
MaxHandleCalls == 3

Procs == {"r1", "r2"}

\* A timestamp is its age in whole days at the time of the query that reads
\* it; datetime.utcnow() at a write is age 0.
utcnow == 0

\* Python's None for a timestamp
None == "None"

\* an optional number: absent (None, or a field the document lacks) or a value
Absent == [present |-> FALSE, value |-> 0]
Num(v) == [present |-> TRUE, value |-> v]

\* a document without a name field
NoName == <<>>

-----------------------------------------------------------------------------
(* Text *)

LowerChar(c) ==
    CASE c = "A" -> "a"
      [] c = "B" -> "b"
      [] c = "C" -> "c"
      [] c = "D" -> "d"
      [] c = "E" -> "e"
      [] c = "F" -> "f"
      [] c = "G" -> "g"
      [] c = "H" -> "h"
      [] c = "I" -> "i"
      [] c = "J" -> "j"
      [] c = "K" -> "k"
      [] c = "L" -> "l"
      [] c = "M" -> "m"
      [] c = "N" -> "n"
      [] c = "O" -> "o"
      [] c = "P" -> "p"
      [] c = "Q" -> "q"
      [] c = "R" -> "r"
      [] c = "S" -> "s"
      [] c = "T" -> "t"
      [] c = "U" -> "u"
      [] c = "V" -> "v"
      [] c = "W" -> "w"
      [] c = "X" -> "x"
      [] c = "Y" -> "y"
      [] c = "Z" -> "z"
      [] OTHER -> c

\* str.lower()
lower(s) == [i \in 1..Len(s) |-> LowerChar(s[i])]

\* Python's `sub in s` for strings
Contains(s, sub) ==
    \E i \in 0..(Len(s) - Len(sub)) : SubSeq(s, i + 1, i + Len(sub)) = sub

RECURSIVE Join(_)
\* the words of ws separated by single spaces
Join(ws) ==
    IF Len(ws) = 0 THEN <<>>
    ELSE IF Len(ws) = 1 THEN ws[1]
    ELSE ws[1] \o <<" ">> \o Join(Tail(ws))

-----------------------------------------------------------------------------
(* Results returned by the tool operations *)

NoResult == [kind |-> "none", success |-> FALSE, message |-> "", id |-> 0, error |-> ""]

\* json.dumps({"success": ..., "message": ..., <identifier>})
Json(success, message, id) ==
    [kind |-> "json", success |-> success, message |-> message, id |-> id,
     error |-> ""]

\* f"<prefix>: {str(e)}" returned by an except clause
TextFailure(prefix) ==
    [kind |-> "text", success |-> FALSE, message |-> prefix, id |-> 0, error |-> ""]

\* an exception that leaves the operation
Raised(prefix) ==
    [kind |-> "raised", success |-> FALSE, message |-> prefix, id |-> 0, error |-> ""]

NoLocals ==
    [client_id |-> 0, enrolled |-> <<>>, service_id |-> 0, amount |-> 0,
     order_id |-> 0, email_sent |-> "none", rejected |-> FALSE, gateway |-> "none",
     enquiry_type |-> <<>>, assigned_to |-> "none", crm |-> 0, booking |-> 0]

NoArgs == [action |-> "none"]

\* the handler returns r; its arguments and local variables go out of scope
\* (what is kept of the locals is named by `keep`)
Return(p, r, keep) ==
    /\ pc' = [pc EXCEPT ![p] = "idle"]
    /\ result' = [result EXCEPT ![p] = r]
    /\ locals' = [locals EXCEPT ![p] = keep]
    /\ args' = [args EXCEPT ![p] = [action |-> args[p].action]]

Sent(email_sent) ==
    [NoLocals EXCEPT !.email_sent = IF email_sent THEN "sent" ELSE "failed"]

\* a rejected insert that was nevertheless followed by the CRM sync and
\* the welcome notification
RejectedAfterSideEffects ==
    [NoLocals EXCEPT !.rejected = TRUE, !.crm = 1, !.email_sent = "sent"]

Rejected == [NoLocals EXCEPT !.rejected = TRUE]

\* self._integrate_with_crm("new_client", ...) followed by the welcome
\* notification: one invocation of each
ClientSideEffects(email_sent) == [Sent(email_sent) EXCEPT !.crm = @ + 1]

\* self._integrate_with_booking_system("new_order", ...) followed by the
\* order confirmation: one invocation of each
OrderSideEffects(email_sent) == [Sent(email_sent) EXCEPT !.booking = @ + 1]

\* find_one: the first matching document in natural (insertion) order, as
\* its position; 0 (None) when nothing matches
find_one(matches) ==
    IF matches = {} THEN 0 ELSE CHOOSE i \in matches : \A j \in matches : i <= j

Goto(p, label) ==
    /\ pc' = [pc EXCEPT ![p] = label]
    /\ UNCHANGED <<result, args>>

Begin(p, a, label) ==
    /\ pc[p] = "idle"
    /\ budget > 0
    /\ budget' = budget - 1
    /\ args' = [args EXCEPT ![p] = a]
    /\ locals' = [locals EXCEPT ![p] = NoLocals]
    /\ result' = [result EXCEPT ![p] = NoResult]
    /\ pc' = [pc EXCEPT ![p] = label]

-----------------------------------------------------------------------------
(* External integration simulator *)

\* _send_email: random.random() > 0.05, either outcome
EmailOutcomes == {TRUE, FALSE}

\* _send_notification for the e-mail templates: the JSON it returns
send_notification(email_sent) ==
    IF email_sent
    THEN Json(TRUE, "Notification sent successfully", 0)
    ELSE Json(FALSE, "Failed to send notification", 0)

-----------------------------------------------------------------------------
(* Create client *)

Emails == {"alice@x.com", "bob@x.com"}
Phones == {"+15550001", "+15550002"}

\* {"$or": [{"email": email}, {"phone": phone}]}
ExistingClientFilterAnd(doc, email, phone) == doc.email = email /\ doc.phone = phone

ExistingClientFilter(doc, email, phone) == doc.email = email \/ doc.phone = phone

\* unique index on clients.email: insert_one raises DuplicateKeyError
NoEmailConstraint(doc) == FALSE

EmailConstraintViolated(doc) ==
    uniqueEmail /\ \E i \in DOMAIN clients : clients[i].email = doc.email

\* the except clause of _create_client
CreateClientExceptRaises == Raised("Failed to create client")

CreateClientExcept == TextFailure("Failed to create client")

\* the value _create_client returns after the insert; the notification's
\* own result is discarded by the caller
CreateClientReturnChecksNotification(client_id, notification) ==
    IF notification.success
    THEN Json(TRUE, "Client created successfully", client_id)
    ELSE Json(FALSE, "Failed to send notification", client_id)

CreateClientReturn(client_id, notification) ==
    Json(TRUE, "Client created successfully", client_id)

create_client_start(p) ==
    /\ \E email \in Emails, phone \in Phones :
          Begin(p, [action |-> "create_client", email |-> email, phone |-> phone],
                "cc_find")
    /\ UNCHANGED <<store, uniqueEmail, handle, query>>

\* find_one on the clients collection and the early return
create_client_find(p) ==
    /\ pc[p] = "cc_find"
    /\ LET matches == {i \in DOMAIN clients :
                          ExistingClientFilter(clients[i], args[p].email, args[p].phone)}
           existing_client == find_one(matches)
       IN IF existing_client # 0
          THEN Return(p, Json(FALSE,
                   "Client already exists with this email or phone number",
                   existing_client),
                   NoLocals)
          ELSE Goto(p, "cc_insert") /\ UNCHANGED locals
    /\ UNCHANGED <<store, uniqueEmail, handle, budget, query>>

\* insert_one, CRM sync, welcome notification, return
create_client_insert(p) ==
    /\ pc[p] = "cc_insert"
    /\ LET client_data == [email |-> args[p].email, phone |-> args[p].phone,
                           status |-> "active", enrolled_services |-> <<>>]
       IN IF EmailConstraintViolated(client_data)
          THEN /\ Return(p, CreateClientExcept, Rejected)
               /\ UNCHANGED clients
          ELSE /\ clients' = Append(clients, client_data)
               /\ \E email_sent \in EmailOutcomes :
                     Return(p, CreateClientReturn(Len(clients) + 1,
                                                  send_notification(email_sent)),
                            ClientSideEffects(email_sent))
    /\ UNCHANGED <<orders, payments, courses, classes, attendance, uniqueEmail, handle, budget,
                   query>>

create_client(p) ==
    \/ create_client_start(p)
    \/ create_client_find(p)
    \/ create_client_insert(p)

-----------------------------------------------------------------------------
(* Create order *)

YogaBeginner == <<"Y", "o", "g", "a", " ", "B", "e", "g", "i", "n", "n", "e", "r">>
YogaFlow == <<"Y", "o", "g", "a", " ", "F", "l", "o", "w">>
MorningYoga == <<"M", "o", "r", "n", "i", "n", "g", " ", "Y", "o", "g", "a">>
yoga == <<"y", "o", "g", "a">>
flow == <<"f", "l", "o", "w">>

\* The catalogue.  Courses carry name and price (sample_data.py); documents
\* of the classes collection written by sample_data.py carry course_name and
\* no name or price; one class document carries a name and no price.
InitialCourses ==
    << [name |-> YogaBeginner, price |-> Num(120000), enrollment_count |-> 5],
       [name |-> YogaFlow, price |-> Num(100000), enrollment_count |-> 0] >>

InitialClasses ==
    << [name |-> NoName, price |-> Absent, enrollment_count |-> 0,
        course_name |-> YogaBeginner, enrolled_count |-> 5],
       [name |-> MorningYoga, price |-> Absent, enrollment_count |-> 0,
        course_name |-> YogaFlow, enrolled_count |-> 0] >>

OrderEmails == {"alice@x.com", "nobody@x.com"}
ServiceTypes == {"course", "class"}
ServiceNames == {YogaBeginner, yoga, flow}
Amounts == {Absent, Num(0), Num(49990), Num(-10000)}

\* service_collection = courses_collection if service_type == "course" else classes_collection
CoursesWhateverType(service_type) == courses

service_collection(service_type) ==
    IF service_type = "course" THEN courses ELSE classes

\* {"name": {"$regex": service_name, "$options": "i"}}
NameRegexMatches(doc, service_name) ==
    /\ doc.name # NoName
    /\ Contains(lower(doc.name), lower(service_name))

\* service.get("price", 0)
get_price(service) == IF service.price.present THEN service.price.value ELSE 0

\* if not amount: amount = service.get("price", 0)
\* `not amount` holds for None and for 0
not_amount(amount) == ~amount.present \/ amount.value = 0

resolve_amount(amount, service) ==
    IF not_amount(amount) THEN get_price(service) ELSE amount.value

\* amount * 0.1
tax_amount_8_percent(amount) == (amount * 8) \div 100

tax_amount(amount) == amount \div 10

\* the name pushed to enrolled_services: the caller's service_name argument
enrolled_name(service_name, service) == service_name

\* {"$inc": {"enrollment_count": 1}} on the document with that _id
IncTwice(coll, id) ==
    [coll EXCEPT ![id].enrollment_count = @ + 2]

inc_enrollment_count(coll, id) ==
    [coll EXCEPT ![id].enrollment_count = @ + 1]

\* the value _create_order returns after its writes; the notification's own
\* result is discarded by the caller
CreateOrderReturnChecksNotification(order_id, notification) ==
    IF notification.success
    THEN Json(TRUE, "Order created successfully", order_id)
    ELSE Json(FALSE, "Failed to send notification", order_id)

CreateOrderReturn(order_id, notification) ==
    Json(TRUE, "Order created successfully", order_id)

\* The call.  The handler reads client_email first; service_type,
\* service_name and amount are drawn where the handler first reads them.
create_order_start(p) ==
    /\ \E client_email \in OrderEmails :
          Begin(p, [action |-> "create_order", client_email |-> client_email],
                "co_find_client")
    /\ UNCHANGED <<store, uniqueEmail, handle, query>>

\* clients_collection.find_one({"email": client_email})
create_order_find_client(p) ==
    /\ pc[p] = "co_find_client"
    /\ LET matches == {i \in DOMAIN clients : clients[i].email = args[p].client_email}
           client == find_one(matches)
       IN IF client = 0
          THEN Return(p, Json(FALSE, "Client not found with email", 0), NoLocals)
          ELSE /\ locals' = [locals EXCEPT ![p].client_id = client,
                                ![p].enrolled = clients[client].enrolled_services]
               /\ Goto(p, "co_find_service")
    /\ UNCHANGED <<store, uniqueEmail, handle, budget, query>>

\* what create_order_find_service does with the arguments it reads
find_service(p, service_type, service_name, amount) ==
    LET coll == service_collection(service_type)
        matches == {i \in DOMAIN coll : NameRegexMatches(coll[i], service_name)}
        service == find_one(matches)
    IN IF service = 0
       THEN Return(p, Json(FALSE, "Service not found", 0), NoLocals)
       ELSE LET resolved == resolve_amount(amount, coll[service])
            IN IF not_amount(amount) /\ resolved = 0
               THEN Return(p, Json(FALSE,
                        "Service price not available and amount not specified", 0),
                        NoLocals)
               ELSE /\ locals' = [locals EXCEPT ![p].service_id = service,
                                     ![p].amount = resolved]
                    /\ args' = [args EXCEPT ![p] =
                                   [action |-> "create_order",
                                    client_email |-> args[p].client_email,
                                    service_type |-> service_type,
                                    service_name |-> service_name,
                                    amount |-> amount]]
                    /\ pc' = [pc EXCEPT ![p] = "co_insert"]
                    /\ UNCHANGED result

\* service_collection.find_one(...) and the amount
create_order_find_service(p) ==
    /\ pc[p] = "co_find_service"
    /\ \E service_type \in ServiceTypes, service_name \in ServiceNames,
          amount \in Amounts :
          find_service(p, service_type, service_name, amount)
    /\ UNCHANGED <<store, uniqueEmail, handle, budget, query>>

\* orders_collection.insert_one(order_data)
create_order_insert(p) ==
    /\ pc[p] = "co_insert"
    /\ LET service == service_collection(args[p].service_type)[locals[p].service_id]
           order_data == [client_id |-> locals[p].client_id,
                          service_type |-> args[p].service_type,
                          service_id |-> locals[p].service_id,
                          service_name |-> service.name,
                          amount |-> locals[p].amount,
                          status |-> "pending",
                          paid_date |-> None,
                          discount_applied |-> 0,
                          tax_amount |-> tax_amount(locals[p].amount)]
       IN /\ orders' = Append(orders, order_data)
          /\ locals' = [locals EXCEPT ![p].order_id = Len(orders) + 1]
    /\ Goto(p, "co_update_client")
    /\ UNCHANGED <<clients, payments, courses, classes, attendance, uniqueEmail, handle, budget,
                   query>>

\* clients_collection.update_one(... "$push" ...) unless already enrolled
create_order_update_client(p) ==
    /\ pc[p] = "co_update_client"
    /\ LET service == service_collection(args[p].service_type)[locals[p].service_id]
           name == enrolled_name(args[p].service_name, service)
       IN IF \E k \in DOMAIN locals[p].enrolled : locals[p].enrolled[k] = name
          THEN UNCHANGED clients
          ELSE clients' = [clients EXCEPT ![locals[p].client_id].enrolled_services =
                              Append(@, name)]
    /\ Goto(p, "co_update_service")
    /\ UNCHANGED <<orders, payments, courses, classes, attendance, uniqueEmail, handle, locals, budget,
                   query>>

\* service_collection.update_one(... "$inc" ...), booking sync, order
\* confirmation, return
create_order_update_service(p) ==
    /\ pc[p] = "co_update_service"
    /\ IF args[p].service_type = "course"
       THEN /\ courses' = inc_enrollment_count(courses, locals[p].service_id)
            /\ UNCHANGED classes
       ELSE /\ classes' = inc_enrollment_count(classes, locals[p].service_id)
            /\ UNCHANGED courses
    /\ \E email_sent \in EmailOutcomes :
          Return(p, CreateOrderReturn(locals[p].order_id,
                                      send_notification(email_sent)),
                 OrderSideEffects(email_sent))
    /\ UNCHANGED <<clients, orders, payments, attendance, uniqueEmail, handle, budget,
                   query>>

create_order(p) ==
    \/ create_order_start(p)
    \/ create_order_find_client(p)
    \/ create_order_find_service(p)
    \/ create_order_insert(p)
    \/ create_order_update_client(p)
    \/ create_order_update_service(p)

-----------------------------------------------------------------------------
(* Process payment *)

\* the order_id argument: a string; ObjectId(order_id) raises InvalidId unless
\* it is well formed
Oid(n) == [valid |-> TRUE, oid |-> n]
BadOid == [valid |-> FALSE, oid |-> 0]

PaymentOrderIds == {Oid(1), Oid(2), Oid(3), BadOid}
PaymentAmounts == {49990}

\* _integrate_with_payment_gateway: random.random() > 0.05, either outcome
GatewayOutcomes == {TRUE, FALSE}

_integrate_with_payment_gateway(success) ==
    IF success
    THEN [success |-> TRUE, gateway_response_code |-> "00", error |-> ""]
    ELSE [success |-> FALSE, gateway_response_code |-> "05",
          error |-> "Payment declined by bank"]

\* if payment_response["success"]:
AlwaysCaptured(payment_response) == TRUE

captured(payment_response) == payment_response.success

\* {"$set": {"status": "paid", "paid_date": datetime.utcnow()}} on the order
\* with that _id, if there is one
LeaveOrder(coll, id) == coll

set_paid(coll, id) ==
    IF id \in DOMAIN coll
    THEN [coll EXCEPT ![id].status = "paid", ![id].paid_date = "utcnow"]
    ELSE coll

process_payment_start(p) ==
    /\ \E order_id \in PaymentOrderIds, amount \in PaymentAmounts :
          Begin(p, [action |-> "process_payment", order_id |-> order_id,
                    amount |-> amount],
                "pp_gateway")
    /\ UNCHANGED <<store, uniqueEmail, handle, query>>

\* the gateway capture and the branch on its response
process_payment_gateway(p) ==
    /\ pc[p] = "pp_gateway"
    /\ \E success \in GatewayOutcomes :
          LET payment_response == _integrate_with_payment_gateway(success)
          IN IF captured(payment_response)
             THEN /\ locals' = [locals EXCEPT ![p].gateway =
                                   payment_response.gateway_response_code]
                  /\ Goto(p, "pp_insert")
             ELSE Return(p, [Json(FALSE, "Payment failed", 0)
                                EXCEPT !.error = payment_response.error],
                         [NoLocals EXCEPT !.gateway =
                             payment_response.gateway_response_code])
    /\ UNCHANGED <<store, uniqueEmail, handle, budget, query>>

\* payments_collection.insert_one(payment_data)
process_payment_insert(p) ==
    /\ pc[p] = "pp_insert"
    /\ IF ~args[p].order_id.valid
       THEN /\ Return(p, TextFailure("Payment processing failed"),
                      [NoLocals EXCEPT !.gateway = locals[p].gateway])
            /\ UNCHANGED payments
       ELSE /\ payments' = Append(payments,
                              [order_id |-> args[p].order_id.oid,
                               amount |-> args[p].amount,
                               payment_date |-> utcnow,
                               status |-> "completed",
                               gateway_response_code |-> locals[p].gateway])
            /\ locals' = [locals EXCEPT ![p].order_id = Len(payments) + 1]
            /\ Goto(p, "pp_update")
    /\ UNCHANGED <<clients, orders, courses, classes, attendance, uniqueEmail, handle, budget,
                   query>>

\* orders_collection.update_one(...) and the return
process_payment_update(p) ==
    /\ pc[p] = "pp_update"
    /\ orders' = set_paid(orders, args[p].order_id.oid)
    /\ Return(p, Json(TRUE, "Payment processed successfully", locals[p].order_id),
              [NoLocals EXCEPT !.gateway = locals[p].gateway])
    /\ UNCHANGED <<clients, payments, courses, classes, attendance, uniqueEmail, handle, budget,
                   query>>

process_payment(p) ==
    \/ process_payment_start(p)
    \/ process_payment_gateway(p)
    \/ process_payment_insert(p)
    \/ process_payment_update(p)

-----------------------------------------------------------------------------
(* Create enquiry *)

pilates == <<"p", "i", "l", "a", "t", "e", "s">>
fitness == <<"f", "i", "t", "n", "e", "s", "s">>
membership == <<"m", "e", "m", "b", "e", "r", "s", "h", "i", "p">>
general == <<"g", "e", "n", "e", "r", "a", "l">>

\* the staff table, in the insertion order the dict is iterated in
staff_assignments ==
    <<[key |-> yoga, staff |-> "Sarah Johnson"],
      [key |-> pilates, staff |-> "Mike Chen"],
      [key |-> fitness, staff |-> "Jessica Williams"],
      [key |-> membership, staff |-> "Alex Rodriguez"],
      [key |-> general, staff |-> "Customer Service Team"]>>

\* key.lower() in enquiry_type.lower()
KeyMatches(i, enquiry_type) ==
    Contains(lower(enquiry_type), lower(staff_assignments[i].key))

\* the entry of the longest matching key
LongestMatching(matching) ==
    CHOOSE i \in matching :
        \A j \in matching \ {i} :
            Len(staff_assignments[j].key) < Len(staff_assignments[i].key)

\* the entry at which the loop over the table returns
FirstMatching(matching) ==
    CHOOSE i \in matching : \A j \in matching : i <= j

_assign_enquiry_to_staff(enquiry_type) ==
    LET matching == {i \in DOMAIN staff_assignments : KeyMatches(i, enquiry_type)}
    IN  IF matching = {}
        THEN staff_assignments[5].staff
        ELSE staff_assignments[FirstMatching(matching)].staff

\* enquiry types as callers word them: table keys and other words, in
\* either case, alone or combined
EnquiryWords ==
    {yoga,
     pilates,
     fitness,
     membership,
     general,
     <<"Y", "O", "G", "A">>,   \* "YOGA"
     <<"n", "u", "t", "r", "i", "t", "i", "o", "n">>}   \* "nutrition"

EnquiryTypes ==
    EnquiryWords \cup {Join(<<first, second>>) : first, second \in EnquiryWords}

\* _create_enquiry makes no store call: the CRM call and both notifications
\* are simulated and their outcomes are not part of the result
CreateEnquiry(p, enquiry_types) ==
    /\ pc[p] = "idle"
    /\ budget > 0
    /\ budget' = budget - 1
    /\ \E enquiry_type \in enquiry_types :
          LET assigned_staff == _assign_enquiry_to_staff(enquiry_type)
          IN  /\ args' = [args EXCEPT ![p] = [action |-> "create_enquiry"]]
              /\ result' = [result EXCEPT ![p] =
                               Json(TRUE, "Enquiry created successfully", 0)]
              /\ locals' = [locals EXCEPT ![p] =
                               [NoLocals EXCEPT !.enquiry_type = enquiry_type,
                                                !.assigned_to = assigned_staff]]
    /\ UNCHANGED <<pc, store, uniqueEmail, handle, query>>

create_enquiry(p) == CreateEnquiry(p, EnquiryTypes)

-----------------------------------------------------------------------------
(* MongoDBTool: query-type normalisation and dispatch *)

\* the query types that _run dispatches on
find_clients == <<"f", "i", "n", "d", "_", "c", "l", "i", "e", "n", "t", "s">>
get_client_by_id == <<"g", "e", "t", "_", "c", "l", "i", "e", "n", "t", "_", "b", "y", "_", "i", "d">>
search_clients == <<"s", "e", "a", "r", "c", "h", "_", "c", "l", "i", "e", "n", "t", "s">>
get_orders == <<"g", "e", "t", "_", "o", "r", "d", "e", "r", "s">>
get_order_by_id == <<"g", "e", "t", "_", "o", "r", "d", "e", "r", "_", "b", "y", "_", "i", "d">>
get_payments == <<"g", "e", "t", "_", "p", "a", "y", "m", "e", "n", "t", "s">>
get_courses == <<"g", "e", "t", "_", "c", "o", "u", "r", "s", "e", "s">>
get_classes == <<"g", "e", "t", "_", "c", "l", "a", "s", "s", "e", "s">>
get_attendance == <<"g", "e", "t", "_", "a", "t", "t", "e", "n", "d", "a", "n", "c", "e">>
revenue_analytics == <<"r", "e", "v", "e", "n", "u", "e", "_", "a", "n", "a", "l", "y", "t", "i", "c", "s">>
client_analytics == <<"c", "l", "i", "e", "n", "t", "_", "a", "n", "a", "l", "y", "t", "i", "c", "s">>
service_analytics == <<"s", "e", "r", "v", "i", "c", "e", "_", "a", "n", "a", "l", "y", "t", "i", "c", "s">>
attendance_analytics == <<"a", "t", "t", "e", "n", "d", "a", "n", "c", "e", "_", "a", "n", "a", "l", "y", "t", "i", "c", "s">>
summary_statistics == <<"s", "u", "m", "m", "a", "r", "y", "_", "s", "t", "a", "t", "i", "s", "t", "i", "c", "s">>

CanonicalCodes ==
    {find_clients, get_client_by_id, search_clients, get_orders,
     get_order_by_id, get_payments, get_courses, get_classes,
     get_attendance, revenue_analytics, client_analytics, service_analytics,
     attendance_analytics, summary_statistics}

\* the phrases of _normalize_query_type
courses_word == <<"c", "o", "u", "r", "s", "e", "s">>
classes_word == <<"c", "l", "a", "s", "s", "e", "s">>
attendance_word == <<"a", "t", "t", "e", "n", "d", "a", "n", "c", "e">>
revenue_word == <<"r", "e", "v", "e", "n", "u", "e">>
analytics_word == <<"a", "n", "a", "l", "y", "t", "i", "c", "s">>
statistics_word == <<"s", "t", "a", "t", "i", "s", "t", "i", "c", "s">>
summary_word == <<"s", "u", "m", "m", "a", "r", "y">>
client_word == <<"c", "l", "i", "e", "n", "t">>
search_word == <<"s", "e", "a", "r", "c", "h">>
find_word == <<"f", "i", "n", "d">>
order_word == <<"o", "r", "d", "e", "r">>
class_word == <<"c", "l", "a", "s", "s">>
service_word == <<"s", "e", "r", "v", "i", "c", "e">>

ClientListingPhrases ==
    {<<"c", "l", "i", "e", "n", "t", " ", "s", "e", "a", "r", "c", "h", " ", "a", "n", "d", " ", "m", "a", "n", "a", "g", "e", "m", "e", "n", "t">>,   \* "client search and management"
     <<"r", "e", "c", "e", "n", "t", " ", "c", "l", "i", "e", "n", "t", "s">>,   \* "recent clients"
     <<"s", "h", "o", "w", " ", "c", "l", "i", "e", "n", "t", "s">>,   \* "show clients"
     <<"g", "e", "t", " ", "c", "l", "i", "e", "n", "t", "s">>,   \* "get clients"
     <<"f", "i", "n", "d", " ", "c", "l", "i", "e", "n", "t", "s">>}   \* "find clients"
OrderListingPhrases ==
    {<<"o", "r", "d", "e", "r", " ", "a", "n", "d", " ", "p", "a", "y", "m", "e", "n", "t", " ", "t", "r", "a", "c", "k", "i", "n", "g">>,   \* "order and payment tracking"
     <<"r", "e", "c", "e", "n", "t", " ", "o", "r", "d", "e", "r", "s">>,   \* "recent orders"
     <<"s", "h", "o", "w", " ", "o", "r", "d", "e", "r", "s">>,   \* "show orders"
     <<"g", "e", "t", " ", "o", "r", "d", "e", "r", "s">>,   \* "get orders"
     <<"f", "i", "n", "d", " ", "o", "r", "d", "e", "r", "s">>}   \* "find orders"
CoursePhrases ==
    {<<"c", "o", "u", "r", "s", "e", " ", "a", "n", "d", " ", "c", "l", "a", "s", "s", " ", "i", "n", "f", "o", "r", "m", "a", "t", "i", "o", "n">>,   \* "course and class information"
     courses_word,
     classes_word}
AttendancePhrases ==
    {<<"a", "t", "t", "e", "n", "d", "a", "n", "c", "e", " ", "m", "o", "n", "i", "t", "o", "r", "i", "n", "g">>,   \* "attendance monitoring"
     attendance_word}
AnalyticsPhrases ==
    {<<"b", "u", "s", "i", "n", "e", "s", "s", " ", "a", "n", "a", "l", "y", "t", "i", "c", "s", " ", "a", "n", "d", " ", "r", "e", "p", "o", "r", "t", "i", "n", "g">>,   \* "business analytics and reporting"
     revenue_word,
     analytics_word,
     statistics_word,
     summary_word}

\* the words callers build a query type from
Words ==
    {<<"s", "h", "o", "w">>,   \* "show"
     <<"m", "e">>,   \* "me"
     <<"g", "e", "t">>,   \* "get"
     <<"r", "e", "c", "e", "n", "t">>,   \* "recent"
     find_word,
     search_word,
     client_word,
     <<"c", "l", "i", "e", "n", "t", "s">>,   \* "clients"
     <<"C", "l", "i", "e", "n", "t", "s">>,   \* "Clients"
     order_word,
     <<"o", "r", "d", "e", "r", "s">>,   \* "orders"
     <<"p", "a", "y", "m", "e", "n", "t", "s">>,   \* "payments"
     courses_word,
     classes_word,
     class_word,
     attendance_word,
     <<"m", "o", "n", "i", "t", "o", "r", "i", "n", "g">>,   \* "monitoring"
     revenue_word,
     service_word,
     analytics_word,
     <<"A", "N", "A", "L", "Y", "T", "I", "C", "S">>,   \* "ANALYTICS"
     statistics_word,
     summary_word}

\* the capabilities named in the tool's description, which agents pass as query types
Capabilities ==
    {<<"C", "l", "i", "e", "n", "t", " ", "s", "e", "a", "r", "c", "h", " ", "a", "n", "d", " ", "m", "a", "n", "a", "g", "e", "m", "e", "n", "t">>,   \* "Client search and management"
     <<"O", "r", "d", "e", "r", " ", "a", "n", "d", " ", "p", "a", "y", "m", "e", "n", "t", " ", "t", "r", "a", "c", "k", "i", "n", "g">>,   \* "Order and payment tracking"
     <<"C", "o", "u", "r", "s", "e", " ", "a", "n", "d", " ", "c", "l", "a", "s", "s", " ", "i", "n", "f", "o", "r", "m", "a", "t", "i", "o", "n">>,   \* "Course and class information"
     <<"A", "t", "t", "e", "n", "d", "a", "n", "c", "e", " ", "m", "o", "n", "i", "t", "o", "r", "i", "n", "g">>,   \* "Attendance monitoring"
     <<"B", "u", "s", "i", "n", "e", "s", "s", " ", "a", "n", "a", "l", "y", "t", "i", "c", "s", " ", "a", "n", "d", " ", "r", "e", "p", "o", "r", "t", "i", "n", "g">>}   \* "Business analytics and reporting"

-----------------------------------------------------------------------------

WordQueries ==
    {Join(ws) : ws \in UNION {[1..n -> Words] : n \in 1..MaxWords}}

\* a request as an agent words it
ShowMeClientAnalytics == <<"s", "h", "o", "w", " ", "m", "e", " ", "c", "l", "i", "e", "n", "t", " ", "a", "n", "a", "l", "y", "t", "i", "c", "s">>

Examples == {ShowMeClientAnalytics}

QueryInputs == CanonicalCodes \cup Capabilities \cup Examples \cup WordQueries

AllPhrasesIn(phrases, query_lower) == \A phrase \in phrases : Contains(query_lower, phrase)

\* any(phrase in query_lower for phrase in phrases)
AnyPhraseIn(phrases, query_lower) == \E phrase \in phrases : Contains(query_lower, phrase)

_normalize_query_type(q) ==
    LET query_lower == lower(q)
        has(word) == Contains(query_lower, word)
    IN  IF AnyPhraseIn(ClientListingPhrases, query_lower) THEN find_clients
        ELSE IF has(client_word) /\ (has(search_word) \/ has(find_word)) THEN search_clients
        ELSE IF AnyPhraseIn(OrderListingPhrases, query_lower) THEN get_orders
        ELSE IF has(order_word) /\ (has(search_word) \/ has(find_word)) THEN get_orders
        ELSE IF AnyPhraseIn(CoursePhrases, query_lower)
             THEN IF has(class_word) THEN get_classes ELSE get_courses
        ELSE IF AnyPhraseIn(AttendancePhrases, query_lower) THEN get_attendance
        ELSE IF AnyPhraseIn(AnalyticsPhrases, query_lower)
             THEN IF has(revenue_word) THEN revenue_analytics
                  ELSE IF has(client_word) THEN client_analytics
                  ELSE IF has(service_word) THEN service_analytics
                  ELSE IF has(attendance_word) THEN attendance_analytics
                  ELSE summary_statistics
        ELSE q

\* the method _run calls for a normalised query type
Dispatch(normalized) ==
    IF normalized = find_clients THEN "_find_clients"
    ELSE IF normalized = get_client_by_id THEN "_get_client_by_id"
    ELSE IF normalized = search_clients THEN "_search_clients"
    ELSE IF normalized = get_orders THEN "_get_orders"
    ELSE IF normalized = get_order_by_id THEN "_get_order_by_id"
    ELSE IF normalized = get_payments THEN "_get_payments"
    ELSE IF normalized = get_courses THEN "_get_courses"
    ELSE IF normalized = get_classes THEN "_get_classes"
    ELSE IF normalized = get_attendance THEN "_get_attendance"
    ELSE IF normalized = revenue_analytics THEN "_revenue_analytics"
    ELSE IF normalized = client_analytics THEN "_client_analytics"
    ELSE IF normalized = service_analytics THEN "_service_analytics"
    ELSE IF normalized = attendance_analytics THEN "_attendance_analytics"
    ELSE IF normalized = summary_statistics THEN "_get_summary_statistics"
    ELSE "_get_available_query_types"

-----------------------------------------------------------------------------
(* MongoDBTool: the query and analytics operations *)

\* **kwargs of a call: the names passed and their values (the value of a
\* name that is not passed is never read)
DefaultKwargs ==
    [keys |-> {}, status |-> "", client_id |-> BadOid, order_id |-> BadOid,
     search_term |-> "", period |-> "", course_name |-> <<>>]

NoKwargs == DefaultKwargs

HasKey(kw, key) == key \in kw.keys

StatusKwargs ==
    {[DefaultKwargs EXCEPT !.keys = {"status"}, !.status = s] :
        s \in {"active", "suspended", "pending", "paid"}}
ClientIdKwargs ==
    {[DefaultKwargs EXCEPT !.keys = {"client_id"}, !.client_id = id] :
        id \in {Oid(1), Oid(3), BadOid}}
OrderIdKwargs ==
    {[DefaultKwargs EXCEPT !.keys = {"order_id"}, !.order_id = id] :
        id \in {Oid(1), Oid(3), BadOid}}
SearchKwargs ==
    {[DefaultKwargs EXCEPT !.keys = {"search_term"}, !.search_term = t] :
        t \in {"alice@x.com", "nobody@x.com"}}
Periods == {"week", "month", "quarter", "year"}
PeriodKwargs ==
    {[DefaultKwargs EXCEPT !.keys = {"period"}, !.period = t] : t \in Periods}
CourseNameKwargs ==
    {[DefaultKwargs EXCEPT !.keys = {"course_name"}, !.course_name = n] :
        n \in {yoga, flow}}

ToolKwargs ==
    {NoKwargs} \cup StatusKwargs \cup ClientIdKwargs \cup OrderIdKwargs
        \cup SearchKwargs \cup PeriodKwargs \cup CourseNameKwargs

\* What a store call of the operation does: answers, raises RuntimeError
\* (get_sync_database when not connected) or raises a PyMongoError.
Faults == {"none", "RuntimeError", "PyMongoError"}

\* What an operation returns: a JSON document (success, the sample-data note,
\* count, the _ids of the records, the computed totals, message), a text, or
\* an exception that leaves the method.
NoToolResult ==
    [kind |-> "none", success |-> FALSE, note |-> FALSE, count |-> 0, ids |-> {},
     values |-> <<>>, message |-> ""]

ToolJson(success, note, count, ids, values, message) ==
    [kind |-> "json", success |-> success, note |-> note, count |-> count,
     ids |-> ids, values |-> values, message |-> message]

ToolText(message) == [NoToolResult EXCEPT !.kind = "text", !.message = message]

ToolRaised(exception) == [NoToolResult EXCEPT !.kind = "raised", !.message = exception]

EmptyListing == ToolJson(TRUE, FALSE, 0, {}, <<>>, "")

\* the hard-coded sample lists have five entries
SamplePayload ==
    ToolJson(TRUE, TRUE, 5, {}, <<>>, "Sample data - database appears to be empty")

Listing(ids) == ToolJson(TRUE, FALSE, Cardinality(ids), ids, <<>>, "")

NotFound(message) == ToolJson(FALSE, FALSE, 0, {}, <<>>, message)

Totals(values) == ToolJson(TRUE, FALSE, 0, {}, values, "")

\* except Exception as e: return f"<prefix>: {str(e)}"
Caught(fault, prefix, body) == IF fault # "none" THEN ToolText(prefix) ELSE body

RECURSIVE SumOver(_, _, _)
\* $group {"total": {"$sum": "$amount"}} over the documents ids of coll
SumOver(coll, ids, field) ==
    IF ids = {} THEN 0
    ELSE LET i == CHOOSE i \in ids : TRUE
         IN  coll[i][field] + SumOver(coll, ids \ {i}, field)

_find_clients(kw, fault) ==
    IF fault = "RuntimeError" THEN ToolRaised("RuntimeError")
    ELSE IF fault = "PyMongoError" THEN ToolText("Database error")
    ELSE LET found == {i \in DOMAIN clients :
                          HasKey(kw, "status") => clients[i].status = kw.status}
         IN  IF found = {} THEN SamplePayload ELSE Listing(found)

_get_client_by_id(kw, fault) ==
    Caught(fault, "Error retrieving client",
        IF ~kw.client_id.valid THEN ToolText("Error retrieving client")
        ELSE IF kw.client_id.oid \notin DOMAIN clients THEN NotFound("Client not found")
        ELSE Listing({kw.client_id.oid}))

\* the search terms drawn are whole emails, which match as patterns the
\* email they spell
_search_clients(kw, fault) ==
    Caught(fault, "Client search failed",
        Listing({i \in DOMAIN clients :
                    clients[i].email = kw.search_term \/ clients[i].phone = kw.search_term}))

_get_orders(kw, fault) ==
    Caught(fault, "Error retrieving orders",
        IF HasKey(kw, "client_id") /\ ~kw.client_id.valid
        THEN ToolText("Error retrieving orders")
        ELSE LET found == {i \in DOMAIN orders :
                              /\ HasKey(kw, "client_id") =>
                                     orders[i].client_id = kw.client_id.oid
                              /\ HasKey(kw, "status") => orders[i].status = kw.status}
             IN  IF found = {} THEN SamplePayload ELSE Listing(found))

_get_order_by_id(kw, fault) ==
    Caught(fault, "Error retrieving order details",
        IF ~kw.order_id.valid THEN ToolText("Error retrieving order details")
        ELSE IF kw.order_id.oid \notin DOMAIN orders THEN NotFound("Order not found")
        ELSE Listing({kw.order_id.oid}))

_get_payments(kw, fault) ==
    Caught(fault, "Error retrieving payments",
        IF HasKey(kw, "order_id") /\ ~kw.order_id.valid
        THEN ToolText("Error retrieving payments")
        ELSE Listing({i \in DOMAIN payments :
                         /\ HasKey(kw, "order_id") =>
                                payments[i].order_id = kw.order_id.oid
                         /\ HasKey(kw, "status") => payments[i].status = kw.status}))

_get_courses(kw, fault) ==
    Caught(fault, "Error retrieving courses", Listing(DOMAIN courses))

_get_classes(kw, fault) ==
    Caught(fault, "Error retrieving classes", Listing(DOMAIN classes))

_get_attendance(kw, fault) ==
    Caught(fault, "Error retrieving attendance",
        IF HasKey(kw, "client_id") /\ ~kw.client_id.valid
        THEN ToolText("Error retrieving attendance")
        ELSE Listing({i \in DOMAIN attendance :
                         /\ HasKey(kw, "client_id") =>
                                attendance[i].client_id = kw.client_id.oid
                         /\ HasKey(kw, "status") => attendance[i].status = kw.status}))

\* timedelta(days=...) of the period; any other value is the month
lookback_days(period) ==
    IF period = "week" THEN 7
    ELSE IF period = "month" THEN 30
    ELSE IF period = "quarter" THEN 90
    ELSE 30

CompletedEver(days) == {i \in DOMAIN payments : payments[i].status = "completed"}

\* {"$match": {"status": "completed", "payment_date": {"$gte": start_date}}}
CompletedSince(days) ==
    {i \in DOMAIN payments :
        payments[i].status = "completed" /\ payments[i].payment_date <= days}

\* {"$lookup": {"from": "orders", ...}}, {"$unwind": "$order"} and the
\* $group on "$order.service_type": the matched payments whose order exists
\* and has that service type ($unwind drops a payment whose lookup is empty)
revenue_by_service(days, service_type) ==
    {i \in CompletedSince(days) :
        /\ payments[i].order_id \in DOMAIN orders
        /\ orders[payments[i].order_id].service_type = service_type}

\* values: total_revenue, outstanding_payments, then total_revenue and
\* order_count of the "course" group and of the "class" group
_revenue_analytics(kw, fault) ==
    Caught(fault, "Revenue analytics failed",
        LET period == IF HasKey(kw, "period") THEN kw.period ELSE "month"
            days == lookback_days(period)
            pending == {i \in DOMAIN orders : orders[i].status = "pending"}
        IN  Totals(<<SumOver(payments, CompletedSince(days), "amount"),
                     SumOver(orders, pending, "amount"),
                     SumOver(payments, revenue_by_service(days, "course"), "amount"),
                     Cardinality(revenue_by_service(days, "course")),
                     SumOver(payments, revenue_by_service(days, "class"), "amount"),
                     Cardinality(revenue_by_service(days, "class"))>>))

_client_analytics(kw, fault) ==
    Caught(fault, "Client analytics failed",
        Totals(<<Len(clients),
                 Cardinality({i \in DOMAIN clients : clients[i].status = "active"})>>))

_service_analytics(kw, fault) ==
    Caught(fault, "Service analytics failed",
        LET recent == {i \in DOMAIN orders : orders[i].status \in {"paid", "pending"}}
        IN  Totals(<<Len(courses), Cardinality(recent)>>))

RECURSIVE Ascending(_)
\* the members of a set of numbers, smallest first
Ascending(S) ==
    IF S = {} THEN <<>>
    ELSE LET least == CHOOSE i \in S : \A j \in S : i <= j
         IN  <<least>> \o Ascending(S \ {least})

\* the records of a class with one of the given statuses
Attended(class_id, statuses) ==
    Cardinality({i \in DOMAIN attendance :
                    attendance[i].class_id = class_id /\ attendance[i].status \in statuses})

\* {"$multiply": [{"$divide": [{"$add": [present, late]}, total_registered]}, 100]}
\* in whole percent
attendance_percentage(class_id) ==
    (Attended(class_id, {"present", "late"}) * 100) \div classes[class_id].enrolled_count

\* $divide raises when the divisor is 0, which fails the aggregate
DivideFails(class_ids) == \E c \in class_ids : classes[c].enrolled_count = 0

_attendance_analytics(kw, fault) ==
    Caught(fault, "Attendance analytics failed",
        LET filtered == HasKey(kw, "course_name")
            class_ids == {c \in DOMAIN classes :
                             Contains(lower(classes[c].course_name), lower(kw.course_name))}
            \* $lookup and $unwind keep the records whose class exists
            grouped == {c \in DOMAIN classes :
                           /\ \E i \in DOMAIN attendance : attendance[i].class_id = c
                           /\ filtered => c \in class_ids}
        IN  IF filtered /\ class_ids = {} THEN NotFound("No classes found for course")
            ELSE IF DivideFails(grouped) THEN ToolText("Attendance analytics failed")
            ELSE ToolJson(TRUE, FALSE, Cardinality(grouped), grouped,
                          [n \in 1..Cardinality(grouped) |->
                              attendance_percentage(Ascending(grouped)[n])],
                          ""))

\* class OrderStatus(str, Enum)
OrderStatus == {"PENDING", "PAID", "CANCELLED", "REFUNDED"}

\* the fixed demonstration summary: 25 clients, 23 active, 48 orders
SampleSummary ==
    ToolJson(TRUE, TRUE, 0, {}, <<25, 23, 48>>, "Sample data - database appears to be empty")

_get_summary_statistics(kw, fault) ==
    Caught(fault, "Summary statistics failed",
        \* OrderStatus.CONFIRMED, OrderStatus.IN_PROGRESS: AttributeError when
        \* the enumeration has no such member
        IF ~({"CONFIRMED", "IN_PROGRESS"} \subseteq OrderStatus)
        THEN ToolText("Summary statistics failed")
        ELSE IF Len(clients) = 0 /\ Len(orders) = 0 THEN SampleSummary
        ELSE Totals(<<Len(clients),
                      Cardinality({i \in DOMAIN clients : clients[i].status = "active"}),
                      Len(orders)>>))

_get_available_query_types == ToolText("Available query types")

Methods ==
    {"_find_clients", "_get_client_by_id", "_search_clients", "_get_orders",
     "_get_order_by_id", "_get_payments", "_get_courses", "_get_classes",
     "_get_attendance", "_revenue_analytics", "_client_analytics",
     "_service_analytics", "_attendance_analytics", "_get_summary_statistics"}

\* the keyword arguments a method requires, and those (of the ones drawn
\* here) that it accepts
Required(method) ==
    IF method = "_get_client_by_id" THEN {"client_id"}
    ELSE IF method = "_search_clients" THEN {"search_term"}
    ELSE IF method = "_get_order_by_id" THEN {"order_id"}
    ELSE {}

Accepted(method) ==
    IF method = "_find_clients" THEN {"status"}
    ELSE IF method = "_get_client_by_id" THEN {"client_id"}
    ELSE IF method = "_search_clients" THEN {"search_term"}
    ELSE IF method = "_get_orders" THEN {"client_id", "status"}
    ELSE IF method = "_get_order_by_id" THEN {"order_id"}
    ELSE IF method = "_get_payments" THEN {"order_id", "status"}
    ELSE IF method = "_get_attendance" THEN {"client_id", "status"}
    ELSE IF method = "_revenue_analytics" THEN {"period"}
    ELSE IF method = "_attendance_analytics" THEN {"course_name"}
    ELSE {}

\* self._<method>(**kwargs)
Call(method, kw, fault) ==
    IF method = "_get_available_query_types" THEN _get_available_query_types
    ELSE IF ~(Required(method) \subseteq kw.keys /\ kw.keys \subseteq Accepted(method))
    THEN ToolRaised("TypeError")
    ELSE IF method = "_find_clients" THEN _find_clients(kw, fault)
    ELSE IF method = "_get_client_by_id" THEN _get_client_by_id(kw, fault)
    ELSE IF method = "_search_clients" THEN _search_clients(kw, fault)
    ELSE IF method = "_get_orders" THEN _get_orders(kw, fault)
    ELSE IF method = "_get_order_by_id" THEN _get_order_by_id(kw, fault)
    ELSE IF method = "_get_payments" THEN _get_payments(kw, fault)
    ELSE IF method = "_get_courses" THEN _get_courses(kw, fault)
    ELSE IF method = "_get_classes" THEN _get_classes(kw, fault)
    ELSE IF method = "_get_attendance" THEN _get_attendance(kw, fault)
    ELSE IF method = "_revenue_analytics" THEN _revenue_analytics(kw, fault)
    ELSE IF method = "_client_analytics" THEN _client_analytics(kw, fault)
    ELSE IF method = "_service_analytics" THEN _service_analytics(kw, fault)
    ELSE IF method = "_attendance_analytics" THEN _attendance_analytics(kw, fault)
    ELSE _get_summary_statistics(kw, fault)

Propagates(r) == r

\* a store call that writes: every document of the collection is removed
delete_many(coll) == <<>>

\* find, find_one, count_documents and aggregate are the only store calls
\* of the query operations: the collection after the call
find(coll) == coll

\* _run: except Exception as e: return f"Database operation failed: {str(e)}"
RunCatches(r) == IF r.kind = "raised" THEN ToolText("Database operation failed") ELSE r

\* MongoDBTool._run(query_type, **kwargs); every operation only reads the
\* store
RunTool(inputs, kwargs, faults) ==
    /\ \E q \in inputs, kw \in kwargs, fault \in faults :
         LET normalized == _normalize_query_type(q)
         IN  /\ query_type' = q
             /\ normalized_query' = normalized
             /\ dispatched' = Dispatch(normalized)
             /\ tool_kwargs' = kw
             /\ tool_result' = RunCatches(Call(Dispatch(normalized), kw, fault))
    /\ clients' = find(clients)
    /\ orders' = find(orders)
    /\ payments' = find(payments)
    /\ courses' = find(courses)
    /\ classes' = find(classes)
    /\ attendance' = find(attendance)
    /\ UNCHANGED <<uniqueEmail, handle, pc, args, locals, result>>

\* one call of the tool with no keyword arguments; the tool keeps no state
\* between calls, so a behaviour is one call
_run ==
    /\ dispatched = "none"
    /\ RunTool(QueryInputs, {NoKwargs}, {"none"})
    /\ UNCHANGED budget

-----------------------------------------------------------------------------
(* Faults *)

\* the labels at which a handler of ExternalAPITool calls the store
\* (get_sync_collection included, which raises when not connected)
StoreCallLabels ==
    {"cc_find", "cc_insert", "co_find_client", "co_find_service", "co_insert",
     "co_update_client", "co_update_service", "pp_insert", "pp_update"}

\* except Exception as e: return f"<prefix>: {str(e)}" of the handler
Except(action) ==
    IF action = "create_client" THEN CreateClientExcept
    ELSE IF action = "create_order" THEN TextFailure("Failed to create order")
    ELSE TextFailure("Payment processing failed")

\* the store call the request is about to make raises; what the handler
\* wrote before stays written
store_call_raises(p) ==
    /\ pc[p] \in StoreCallLabels
    /\ Return(p, Except(args[p].action), NoLocals)
    /\ UNCHANGED <<store, uniqueEmail, handle, budget, query>>

\* ExternalAPITool._run with an action it does not know, or with keyword
\* arguments the handler does not take (TypeError)
external_run_rejects(p) ==
    /\ pc[p] = "idle"
    /\ budget > 0
    /\ budget' = budget - 1
    /\ \E message \in {"Unknown action", "External API operation failed"} :
          /\ args' = [args EXCEPT ![p] = [action |-> "none"]]
          /\ result' = [result EXCEPT ![p] = TextFailure(message)]
          /\ locals' = [locals EXCEPT ![p] = NoLocals]
    /\ UNCHANGED <<pc, store, uniqueEmail, handle, query>>

ToolInputs == CanonicalCodes \cup Capabilities

\* a query type that no rule of the normaliser matches
help == <<"h", "e", "l", "p">>

FaultInputs == ToolInputs \cup {help}

FaultKwargs ==
    {NoKwargs, [DefaultKwargs EXCEPT !.keys = {"client_id"}, !.client_id = Oid(1)]}

\* MongoDBTool._run while the store may fail
run_with_faults ==
    /\ budget > 0
    /\ budget' = budget - 1
    /\ RunTool(FaultInputs, FaultKwargs, Faults)

-----------------------------------------------------------------------------
(* Store handle *)

NoGet == [met |-> "None", outcome |-> "none"]

\* the state main.py's startup leaves: connect_to_mongo_sync has run
Connected ==
    /\ sync_client = "open"
    /\ sync_database = "database"
    /\ got = NoGet

\* cls.sync_client = MongoClient(...); cls.sync_database = cls.sync_client[...]
connect_to_mongo_sync ==
    /\ budget > 0
    /\ budget' = budget - 1
    /\ sync_client' = "open"
    /\ sync_database' = "database"
    /\ UNCHANGED <<store, uniqueEmail, pc, args, locals, result, got, query>>

\* if cls.sync_client: cls.sync_client.close(); neither class attribute
\* is assigned
close_mongo_connection_sync ==
    /\ budget > 0
    /\ budget' = budget - 1
    /\ sync_client' = IF sync_client = "None" THEN "None" ELSE "closed"
    /\ UNCHANGED <<store, uniqueEmail, pc, args, locals, result, sync_database, got,
                   query>>

\* if cls.sync_database is None: raise RuntimeError(...); return cls.sync_database
get_sync_database ==
    /\ budget > 0
    /\ budget' = budget - 1
    /\ got' = [met |-> sync_client,
               outcome |-> IF sync_database = "None" THEN "RuntimeError"
                           ELSE "database"]
    /\ UNCHANGED <<store, uniqueEmail, pc, args, locals, result, sync_client,
                   sync_database, query>>

\* what the store calls of a tool operation do with the handle as it is:
\* get_sync_collection raises RuntimeError without a database; a database
\* of a closed client answers after a reconnect or raises, by the driver
HandleFaults ==
    IF sync_database = "None" THEN {"RuntimeError"}
    ELSE IF sync_client = "closed" THEN {"none", "PyMongoError"}
    ELSE {"none"}

\* MongoDBTool._run with the handle as it is
run_with_handle ==
    /\ budget > 0
    /\ budget' = budget - 1
    /\ RunTool(FaultInputs, FaultKwargs, HandleFaults)
    /\ UNCHANGED handle

-----------------------------------------------------------------------------
(* Specifications *)

IdleRequests ==
    /\ pc = [p \in Procs |-> "idle"]
    /\ args = [p \in Procs |-> NoArgs]
    /\ locals = [p \in Procs |-> NoLocals]
    /\ result = [p \in Procs |-> NoResult]

NoQuery ==
    /\ query_type = <<>>
    /\ normalized_query = <<>>
    /\ dispatched = "none"
    /\ tool_kwargs = NoKwargs
    /\ tool_result = NoToolResult

\* Concurrent create-client requests against an empty clients collection,
\* with or without the indexes of create_indexes.
InitClient ==
    /\ clients = <<>>
    /\ orders = <<>>
    /\ payments = <<>>
    /\ courses = <<>>
    /\ classes = <<>>
    /\ attendance = <<>>
    /\ uniqueEmail \in BOOLEAN
    /\ IdleRequests
    /\ budget = MaxClientCalls
    /\ NoQuery
    /\ Connected

NextClient == \E p \in Procs : create_client(p)

SpecClient == InitClient /\ [][NextClient]_vars

\* The same requests issued one after the other.
Sequential(p) == \A q \in Procs \ {p} : pc[q] = "idle"

NextClientSeq == \E p \in Procs : Sequential(p) /\ create_client(p)

SpecClientSeq == InitClient /\ [][NextClientSeq]_vars

\* The state in which create client has written alice@x.com and the
\* catalogue is loaded.
StoreWithClient ==
    /\ clients = << [email |-> "alice@x.com", phone |-> "+15550001",
                     status |-> "active", enrolled_services |-> <<>>] >>
    /\ orders = <<>>
    /\ payments = <<>>
    /\ courses = InitialCourses
    /\ classes = InitialClasses
    /\ attendance = <<>>
    /\ uniqueEmail = TRUE

\* Concurrent create-order requests.
InitOrder ==
    /\ StoreWithClient
    /\ IdleRequests
    /\ budget = MaxOrderCalls
    /\ NoQuery
    /\ Connected

NextOrder == \E p \in Procs : create_order(p)

SpecOrder == InitOrder /\ [][NextOrder]_vars

\* Concurrent process-payment requests; the orders collection holds one
\* order as create order writes it and one cancelled order as sample_data.py
\* writes them.
InitPayment ==
    /\ clients = << [email |-> "alice@x.com", phone |-> "+15550001",
                     status |-> "active", enrolled_services |-> <<YogaBeginner>>] >>
    /\ orders = << [client_id |-> 1, service_type |-> "course", service_id |-> 1,
                    service_name |-> YogaBeginner, amount |-> 120000,
                    status |-> "pending", paid_date |-> None,
                    discount_applied |-> 0, tax_amount |-> 12000],
                   [client_id |-> 1, service_type |-> "course", service_id |-> 2,
                    service_name |-> YogaFlow, amount |-> 100000,
                    status |-> "cancelled", paid_date |-> None,
                    discount_applied |-> 0, tax_amount |-> 8000] >>
    /\ payments = <<>>
    /\ courses = InitialCourses
    /\ classes = InitialClasses
    /\ attendance = <<>>
    /\ uniqueEmail = TRUE
    /\ IdleRequests
    /\ budget = MaxPaymentCalls
    /\ NoQuery
    /\ Connected

NextPayment == \E p \in Procs : process_payment(p)

SpecPayment == InitPayment /\ [][NextPayment]_vars

\* All three operations, concurrently.
Init ==
    /\ StoreWithClient
    /\ IdleRequests
    /\ budget = MaxCalls
    /\ NoQuery
    /\ Connected

Next == \E p \in Procs : create_client(p) \/ create_order(p) \/ process_payment(p)

Spec == Init /\ [][Next]_vars

\* One call of the query tool; the store plays no part in normalisation and
\* dispatch.
InitQuery ==
    /\ StoreWithClient
    /\ IdleRequests
    /\ budget = 0
    /\ NoQuery
    /\ Connected

NextQuery == _run

SpecQuery == InitQuery /\ [][NextQuery]_vars

\* The query tool over stores of every filling: each collection empty or
\* holding what the domain operations and the sample data write.
Alice ==
    [email |-> "alice@x.com", phone |-> "+15550001", status |-> "active",
     enrolled_services |-> <<YogaBeginner>>]
Bob ==
    [email |-> "bob@x.com", phone |-> "+15550002", status |-> "inactive",
     enrolled_services |-> <<>>]
PendingOrder ==
    [client_id |-> 1, service_type |-> "course", service_id |-> 1,
     service_name |-> YogaBeginner, amount |-> 120000,
     status |-> "pending", paid_date |-> None,
     discount_applied |-> 0, tax_amount |-> 12000]
PaidOrder ==
    [PendingOrder EXCEPT !.status = "paid", !.paid_date = "utcnow"]
CompletedPayment ==
    [order_id |-> 2, amount |-> 120000, payment_date |-> utcnow,
     status |-> "completed", gateway_response_code |-> "00"]
PresentRecord == [class_id |-> 1, client_id |-> 1, status |-> "present"]

FilledStores ==
    [clients : {<<>>, <<Alice>>, <<Alice, Bob>>},
     orders : {<<>>, <<PendingOrder>>, <<PendingOrder, PaidOrder>>},
     payments : {<<>>, <<CompletedPayment>>},
     courses : {<<>>, InitialCourses},
     classes : {<<>>, InitialClasses},
     attendance : {<<>>, <<PresentRecord>>}]

\* an order is written for a stored client, a payment for a stored order, an
\* attendance record for a stored class and client
Consistent(s) ==
    /\ s.orders # <<>> => s.clients # <<>>
    /\ s.payments # <<>> => Len(s.orders) > 1
    /\ s.attendance # <<>> => s.classes # <<>> /\ s.clients # <<>>

InitListing ==
    /\ \E s \in {t \in FilledStores : Consistent(t)} :
         /\ clients = s.clients
         /\ orders = s.orders
         /\ payments = s.payments
         /\ courses = s.courses
         /\ classes = s.classes
         /\ attendance = s.attendance
    /\ uniqueEmail = TRUE
    /\ IdleRequests
    /\ budget = 0
    /\ NoQuery
    /\ Connected

\* one call, with keyword arguments
run_operation ==
    /\ dispatched = "none"
    /\ RunTool(ToolInputs, ToolKwargs, {"none"})
    /\ UNCHANGED budget

NextListing == run_operation

SpecListing == InitListing /\ [][NextListing]_vars

\* Attendance analytics over classes of every enrolled_count and attendance
\* records of every status; one record per (class_id, client_id), as the
\* unique index of create_indexes enforces.
EnrolledCounts == {0, 2, 5}

AttendanceRecords ==
    [class_id : {1, 2}, client_id : {1, 2}, status : {"present", "late", "absent"}]

OnePerClassAndClient(records) ==
    \A i, j \in DOMAIN records :
        (records[i].class_id = records[j].class_id
            /\ records[i].client_id = records[j].client_id) => i = j

InitAttendance ==
    /\ clients = <<Alice, Bob>>
    /\ orders = <<>>
    /\ payments = <<>>
    /\ courses = InitialCourses
    /\ \E n1, n2 \in EnrolledCounts :
          classes = << [InitialClasses[1] EXCEPT !.enrolled_count = n1],
                       [InitialClasses[2] EXCEPT !.enrolled_count = n2] >>
    /\ \E n \in 0..MaxAttendance :
          \E records \in [1..n -> AttendanceRecords] :
              /\ OnePerClassAndClient(records)
              /\ attendance = records
    /\ uniqueEmail = TRUE
    /\ IdleRequests
    /\ budget = 0
    /\ NoQuery
    /\ Connected

\* MongoDBTool._attendance_analytics(course_name), called as a method
call_attendance_analytics ==
    /\ dispatched = "none"
    /\ \E kw \in {NoKwargs} \cup CourseNameKwargs :
          /\ tool_kwargs' = kw
          /\ tool_result' = Call("_attendance_analytics", kw, "none")
    /\ dispatched' = "_attendance_analytics"
    /\ UNCHANGED <<store, uniqueEmail, handle, pc, args, locals, result, budget,
                   query_type, normalized_query>>

NextAttendance == call_attendance_analytics

SpecAttendance == InitAttendance /\ [][NextAttendance]_vars

\* Revenue analytics over payments of every status and of ages on both
\* sides of each lookback window.
PaymentAges == {0, 7, 8, 30, 31, 90, 91}

StoredPayments ==
    [order_id : {2}, amount : {49990, 120000}, payment_date : PaymentAges,
     status : {"completed", "failed"}, gateway_response_code : {"00"}]

InitRevenue ==
    /\ clients = <<Alice>>
    /\ orders = <<PendingOrder, PaidOrder>>
    /\ \E n \in 0..MaxPayments : payments \in [1..n -> StoredPayments]
    /\ courses = InitialCourses
    /\ classes = InitialClasses
    /\ attendance = <<>>
    /\ uniqueEmail = TRUE
    /\ IdleRequests
    /\ budget = 0
    /\ NoQuery
    /\ Connected

\* _run("revenue_analytics", period=...)
run_revenue_analytics ==
    /\ dispatched = "none"
    /\ RunTool({revenue_analytics}, {NoKwargs} \cup PeriodKwargs, {"none"})
    /\ UNCHANGED budget

NextRevenue == run_revenue_analytics

SpecRevenue == InitRevenue /\ [][NextRevenue]_vars

\* Enquiries only: no store is involved.
InitEnquiry ==
    /\ StoreWithClient
    /\ IdleRequests
    /\ budget = MaxEnquiryCalls
    /\ NoQuery
    /\ Connected

NextEnquiry == \E p \in Procs : create_enquiry(p)

SpecEnquiry == InitEnquiry /\ [][NextEnquiry]_vars

\* Both tools in use, one request at a time, with store calls that may
\* fail.
InitFault ==
    /\ StoreWithClient
    /\ IdleRequests
    /\ budget = MaxFaultCalls
    /\ NoQuery
    /\ Connected

NextFault ==
    \/ \E p \in Procs :
          /\ Sequential(p)
          /\ \/ create_client(p)
             \/ create_order(p)
             \/ process_payment(p)
             \/ CreateEnquiry(p, {yoga, general})
             \/ store_call_raises(p)
             \/ external_run_rejects(p)
    \/ (\A p \in Procs : pc[p] = "idle") /\ run_with_faults

SpecFault == InitFault /\ [][NextFault]_vars

\* Payments are processed and the revenue report is then asked for once.
NextPaymentRevenue ==
    \/ \E p \in Procs : process_payment(p)
    \/ (\A p \in Procs : pc[p] = "idle") /\ run_revenue_analytics

SpecPaymentRevenue == InitPayment /\ [][NextPaymentRevenue]_vars

\* The life of the store handle: nothing is connected when the module is
\* loaded; connect, close, get and tool calls in any order.
InitHandle ==
    /\ StoreWithClient
    /\ IdleRequests
    /\ budget = MaxHandleCalls
    /\ NoQuery
    /\ sync_client = "None"
    /\ sync_database = "None"
    /\ got = NoGet

NextHandle ==
    \/ connect_to_mongo_sync
    \/ close_mongo_connection_sync
    \/ get_sync_database
    \/ run_with_handle

SpecHandle == InitHandle /\ [][NextHandle]_vars

-----------------------------------------------------------------------------
(* Properties *)

ClientsWithEmail(email) == {i \in DOMAIN clients : clients[i].email = email}

OnePerEmail == \A email \in Emails : Cardinality(ClientsWithEmail(email)) <= 1

\* the existence check of request p finds a client with its email or phone:
\* nothing is written and the call returns success:false with that client's id
RejectsExisting(p) ==
    LET existing == {i \in DOMAIN clients :
                        \/ clients[i].email = args[p].email
                        \/ clients[i].phone = args[p].phone}
    IN (pc[p] = "cc_find" /\ pc'[p] # "cc_find" /\ existing # {}) =>
          /\ clients' = clients
          /\ pc'[p] = "idle"
          /\ result'[p].kind = "json"
          /\ ~result'[p].success
          /\ result'[p].id \in existing

\* the insert of request p returns success with the identifier of the one
\* document that carries its email
CreatesOne(p) ==
    (pc[p] = "cc_insert" /\ pc'[p] = "idle") =>
          /\ result'[p].kind = "json"
          /\ result'[p].success
          /\ {i \in DOMAIN clients' : clients'[i].email = args[p].email}
                = {result'[p].id}

\* C1: create client, calls issued one after the other: a call that finds a
\* client with the same email or the same phone writes nothing and returns
\* success:false with that client's identifier; no two client documents ever
\* share an email, and a call that creates a client leaves exactly one
\* document with its email.
C1_CreateClientRejectsDuplicate ==
    /\ []OnePerEmail
    /\ [][\A p \in Procs : RejectsExisting(p) /\ CreatesOne(p)]_vars

\* a call was rejected by the existence check alone (no unique index in
\* force) and the client it names is the only one with its email
C1_Witness ==
    /\ ~uniqueEmail
    /\ \E p \in Procs :
          /\ pc[p] = "idle"
          /\ result[p].kind = "json"
          /\ ~result[p].success
          /\ result[p].id \in DOMAIN clients
          /\ ClientsWithEmail(clients[result[p].id].email) = {result[p].id}

\* C2: concurrent create-client calls: with the unique index on
\* clients.email in force no two client documents share an email, whatever
\* the interleaving, and the call whose insert the store rejects returns a
\* textual failure (nothing is raised out of the operation).
C2_UniqueEmailUnderRace ==
    /\ uniqueEmail => OnePerEmail
    /\ \A p \in Procs :
          /\ result[p].kind # "raised"
          /\ locals[p].rejected => (pc[p] = "idle" /\ result[p].kind = "text")

\* both calls passed the existence check with the same email; one inserted,
\* the other's insert was rejected by the index
C2_Witness ==
    /\ uniqueEmail
    /\ \E p \in Procs, q \in Procs :
          /\ p # q
          /\ locals[p].rejected
          /\ result[p].kind = "text"
          /\ result[q].kind = "json"
          /\ result[q].success
          /\ Cardinality(ClientsWithEmail(clients[result[q].id].email)) = 1

\* a declined capture ends the call at once with the gateway's error
DeclinedReturnsFailure ==
    \A p \in Procs :
       locals[p].gateway = "05" =>
          /\ pc[p] = "idle"
          /\ result[p].kind = "json"
          /\ ~result[p].success
          /\ result[p].error = "Payment declined by bank"

\* the step in which request p learns of the decline writes nothing
DeclinedWritesNothing(p) ==
    (pc[p] = "pp_gateway" /\ locals'[p].gateway = "05") =>
       /\ payments' = payments
       /\ orders' = orders

\* C3: process payment: when the gateway capture fails, no Payment document
\* is inserted, no Order changes (status and paid_date stay as they were),
\* and the call returns success:false carrying the gateway's error.
C3_DeclinedPaymentWritesNothing ==
    /\ []DeclinedReturnsFailure
    /\ [](\A i \in DOMAIN payments : payments[i].gateway_response_code = "00")
    /\ [][\A p \in Procs : DeclinedWritesNothing(p)]_vars

\* a capture for the pending order was declined: the order is still pending
\* and there is no payment
C3_Witness ==
    /\ \E p \in Procs :
          /\ locals[p].gateway = "05"
          /\ result[p].error = "Payment declined by bank"
    /\ payments = <<>>
    /\ orders[1].status = "pending"
    /\ orders[1].paid_date = None

\* the insert step of request p adds exactly one completed payment for its
\* order_id
InsertsOnePayment(p) ==
    (pc[p] = "pp_insert" /\ pc'[p] = "pp_update") =>
       /\ Len(payments') = Len(payments) + 1
       /\ SubSeq(payments', 1, Len(payments)) = payments
       /\ payments'[Len(payments')].status = "completed"
       /\ payments'[Len(payments')].order_id = args[p].order_id.oid

\* when the call of request p completes after a capture, its order (if the
\* identifier resolves) is paid with a paid_date, and the payment it returns
\* is the completed payment of that order
CompletesPaid(p) ==
    (pc[p] = "pp_update" /\ pc'[p] = "idle") =>
       /\ result'[p].kind = "json"
       /\ result'[p].success
       /\ result'[p].id \in DOMAIN payments'
       /\ payments'[result'[p].id].status = "completed"
       /\ payments'[result'[p].id].order_id = args[p].order_id.oid
       /\ args[p].order_id.oid \in DOMAIN orders =>
             /\ orders'[args[p].order_id.oid].status = "paid"
             /\ orders'[args[p].order_id.oid].paid_date # None

\* the payments collection changes only in the insert step of a request
\* whose capture succeeded
PaymentOnlyAfterCapture ==
    payments' # payments =>
       \E p \in Procs :
          /\ pc[p] = "pp_insert"
          /\ pc'[p] = "pp_update"
          /\ locals[p].gateway = "00"

\* C4: process payment: after a successful capture the call inserts exactly
\* one Payment with status completed and the call's order_id, and when it
\* completes the referenced existing Order has status paid and a paid_date;
\* under every sequence of operations a Payment document is created only
\* after a successful capture.
C4_CapturedPaymentRecorded ==
    [][/\ \A p \in Procs : InsertsOnePayment(p) /\ CompletesPaid(p)
       /\ PaymentOnlyAfterCapture]_vars

\* an order written by create order has been paid by a completed call
C4_Witness ==
    \E p \in Procs :
       /\ pc[p] = "idle"
       /\ args[p].action = "process_payment"
       /\ result[p].success
       /\ result[p].id \in DOMAIN payments
       /\ payments[result[p].id].order_id \in DOMAIN orders
       /\ orders[payments[result[p].id].order_id].status = "paid"
       /\ orders[payments[result[p].id].order_id].paid_date # None

\* the order that the insert step of request p writes
InsertsPricedOrder(p) ==
    (pc[p] = "co_insert" /\ pc'[p] = "co_update_client") =>
       LET order == orders'[Len(orders')]
           service == service_collection(args[p].service_type)[order.service_id]
       IN /\ Len(orders') = Len(orders) + 1
          /\ order.tax_amount * 10 = order.amount
          /\ (~args[p].amount.present) =>
                /\ service.price.present
                /\ order.amount = service.price.value

RejectsOrder(p) ==
    (pc[p] \in {"co_find_client", "co_find_service"} /\ pc'[p] = "idle") =>
       /\ result'[p].kind = "json"
       /\ ~result'[p].success
       /\ UNCHANGED <<orders, clients, courses, classes>>

\* no client has the email of request p: the call ends at the client lookup
UnknownClientRejected(p) ==
    (/\ pc[p] = "co_find_client"
     /\ pc'[p] # "co_find_client"
     /\ \A i \in DOMAIN clients : clients[i].email # args[p].client_email) =>
       /\ pc'[p] = "idle"
       /\ result'[p].message = "Client not found with email"

\* request p reaches its insert only with a service of the selected
\* collection whose name matches, and with an amount or a price
ProceedsOnlyResolved(p) ==
    (pc[p] = "co_find_service" /\ pc'[p] \notin {"co_find_service", "idle"}) =>
       LET coll == IF args'[p].service_type = "course" THEN courses ELSE classes
           id == locals'[p].service_id
       IN /\ pc'[p] = "co_insert"
          /\ id \in DOMAIN coll
          /\ coll[id].name # NoName
          /\ Contains(lower(coll[id].name), lower(args'[p].service_name))
          /\ (~args'[p].amount.present \/ args'[p].amount.value = 0) =>
                (coll[id].price.present /\ coll[id].price.value # 0)

\* C6: create order fails with a structured success:false result and writes
\* nothing to orders, clients, courses or classes when no client has the
\* email, when no service of the collection selected by service_type matches
\* the name, and when no amount is supplied and the service has no price: a
\* call goes on to its insert only if none of the three holds.
C6_CreateOrderRejections ==
    [][\A p \in Procs :
          RejectsOrder(p) /\ UnknownClientRejected(p) /\ ProceedsOnlyResolved(p)]_vars

\* one call was rejected for an unmatched service, another for a service
\* without price, and no order was written
C6_Witness ==
    /\ \E p \in Procs, q \in Procs :
          /\ result[p].message = "Service not found"
          /\ result[q].message = "Service price not available and amount not specified"
    /\ orders = <<>>
    /\ clients[1].enrolled_services = <<>>
    /\ courses = InitialCourses
    /\ classes = InitialClasses

\* C7: after a successful create order (from the moment the call has done
\* its client update) the client's enrolled_services contains the name
\* stored in the order's service_name, whatever string the caller matched
\* the service by.
C7_EnrolledByServiceName ==
    \A i \in DOMAIN orders :
       (\A p \in Procs : ~(pc[p] = "co_update_client" /\ locals[p].order_id = i)) =>
          \E k \in DOMAIN clients[orders[i].client_id].enrolled_services :
             clients[orders[i].client_id].enrolled_services[k] = orders[i].service_name

OrdersForCourse(c) ==
    {i \in DOMAIN orders : orders[i].service_type = "course" /\ orders[i].service_id = c}

\* the create-order calls that have inserted an order for course c and have
\* not applied its increment
PendingIncrements(c) ==
    {p \in Procs : /\ pc[p] \in {"co_update_client", "co_update_service"}
                   /\ args[p].service_type = "course"
                   /\ locals[p].service_id = c}

\* C8 as claimed: in every reachable state each course's enrollment_count is
\* its initial value plus the number of orders inserted that reference it.
C8_EnrollmentCountsOrders ==
    \A c \in DOMAIN courses :
       courses[c].enrollment_count =
          InitialCourses[c].enrollment_count + Cardinality(OrdersForCourse(c))

\* C8 amended: in every reachable state each course's enrollment_count is
\* its initial value plus the number of orders inserted that reference it,
\* less the number of create-order calls that have inserted their order and
\* not applied the increment; the two agree whenever no such call is open.
C8_EnrollmentCountsAppliedOrders ==
    \A c \in DOMAIN courses :
       courses[c].enrollment_count =
          InitialCourses[c].enrollment_count + Cardinality(OrdersForCourse(c))
             - Cardinality(PendingIncrements(c))

\* two concurrent calls have both inserted an order for the same course and
\* both are about to increment it
C8_Witness ==
    \E c \in DOMAIN courses :
       /\ Cardinality(OrdersForCourse(c)) = 2
       /\ \A p \in Procs : pc[p] = "co_update_service" /\ locals[p].service_id = c
       /\ Cardinality(PendingIncrements(c)) = 2

\* C9: a failed notification never undoes or fails the triggering write:
\* whichever way the simulated e-mail send went, create client has returned
\* success with the client persisted and create order has returned success
\* with the order persisted.
C9_NotificationNeverFailsWrite ==
    \A p \in Procs :
       locals[p].email_sent # "none" =>
          /\ pc[p] = "idle"
          /\ result[p].kind = "json"
          /\ result[p].success
          /\ args[p].action = "create_client" => result[p].id \in DOMAIN clients
          /\ args[p].action = "create_order" => result[p].id \in DOMAIN orders
          /\ args[p].action \in {"create_client", "create_order"}

\* the e-mail send failed for a create client and for a create order, and
\* both returned success with their documents in the store
C9_Witness ==
    \E p \in Procs, q \in Procs :
       /\ locals[p].email_sent = "failed"
       /\ args[p].action = "create_client"
       /\ result[p].success
       /\ clients[result[p].id].email = "bob@x.com"
       /\ locals[q].email_sent = "failed"
       /\ args[q].action = "create_order"
       /\ result[q].success
       /\ orders[result[q].id].status = "pending"

\* C10: every canonical operation code is a fixed point of normalisation:
\* when _run is called with the code itself, _normalize_query_type returns
\* the code and _run calls that code's own method.
C10_CanonicalCodesAreFixedPoints ==
    (dispatched # "none" /\ query_type \in CanonicalCodes) =>
        /\ normalized_query = query_type
        /\ dispatched = Dispatch(query_type)

-----------------------------------------------------------------------------
(* The ordered rule table of the intent normaliser *)

\* One row: the row matches a lower-cased string that contains one of
\* `phrases` and, when `also` is not empty, one of `also`; its result is the
\* code of the first of `routes` whose keyword the string contains, and
\* `code` when there is none.
Rule(phrases, also, routes, code) ==
    [phrases |-> phrases, also |-> also, routes |-> routes, code |-> code]

Route(keyword, code) == [keyword |-> keyword, code |-> code]

RuleTable ==
    << Rule(ClientListingPhrases, {}, <<>>, find_clients),
       Rule({client_word}, {search_word, find_word}, <<>>, search_clients),
       Rule(OrderListingPhrases, {}, <<>>, get_orders),
       Rule({order_word}, {search_word, find_word}, <<>>, get_orders),
       Rule(CoursePhrases, {}, <<Route(class_word, get_classes)>>, get_courses),
       Rule(AttendancePhrases, {}, <<>>, get_attendance),
       Rule(AnalyticsPhrases, {},
            <<Route(revenue_word, revenue_analytics),
              Route(client_word, client_analytics),
              Route(service_word, service_analytics),
              Route(attendance_word, attendance_analytics)>>,
            summary_statistics) >>

RuleMatches(row, s) ==
    /\ \E phrase \in row.phrases : Contains(s, phrase)
    /\ row.also = {} \/ \E word \in row.also : Contains(s, word)

RuleResult(row, s) ==
    LET hits == {i \in DOMAIN row.routes : Contains(s, row.routes[i].keyword)}
    IN  IF hits = {} THEN row.code
        ELSE row.routes[CHOOSE i \in hits : \A j \in hits : i <= j].code

MatchingRules(s) == {i \in DOMAIN RuleTable : RuleMatches(RuleTable[i], s)}

\* top to bottom, first match wins; no match returns the input unchanged
ByRuleTable(q) ==
    LET rows == MatchingRules(lower(q))
    IN  IF rows = {} THEN q
        ELSE RuleResult(RuleTable[CHOOSE i \in rows : \A j \in rows : i <= j], lower(q))

\* C11: for every input string the normaliser returns what the ordered rule
\* table returns on the lower-cased input, first match wins: an input that
\* matches a rule resolves to the same code as its lower-cased form, and an
\* input that matches no rule is returned unchanged.
C11_NormalizerFollowsRuleTable ==
    dispatched # "none" =>
        /\ normalized_query = ByRuleTable(query_type)
        /\ MatchingRules(lower(query_type)) # {} =>
               normalized_query = ByRuleTable(lower(query_type))
        /\ MatchingRules(lower(query_type)) = {} => normalized_query = query_type

\* "show me client analytics" has resolved to client_analytics
C11_Witness ==
    /\ query_type = ShowMeClientAnalytics
    /\ normalized_query = client_analytics
    /\ dispatched = "_client_analytics"

-----------------------------------------------------------------------------
(* The query operations on empty and on filled collections *)

\* the method was called with keyword arguments it takes
Executed(method) ==
    /\ dispatched = method
    /\ Required(method) \subseteq tool_kwargs.keys
    /\ tool_kwargs.keys \subseteq Accepted(method)

\* the collection an operation reads its records from is empty
BackingEmpty(method) ==
    IF method \in {"_find_clients", "_get_client_by_id", "_search_clients",
                   "_client_analytics"} THEN clients = <<>>
    ELSE IF method \in {"_get_orders", "_get_order_by_id"} THEN orders = <<>>
    ELSE IF method \in {"_get_payments", "_revenue_analytics"} THEN payments = <<>>
    ELSE IF method \in {"_get_courses", "_service_analytics"} THEN courses = <<>>
    ELSE IF method = "_get_classes" THEN classes = <<>>
    ELSE IF method \in {"_get_attendance", "_attendance_analytics"} THEN attendance = <<>>
    ELSE clients = <<>> /\ orders = <<>>

HasSampleNote(r) == r.kind = "json" /\ r.success /\ r.note /\ r.count > 0

\* every identifier passed is well formed
IdsWellFormed ==
    /\ HasKey(tool_kwargs, "client_id") => tool_kwargs.client_id.valid
    /\ HasKey(tool_kwargs, "order_id") => tool_kwargs.order_id.valid

MatchingClients ==
    {i \in DOMAIN clients :
        HasKey(tool_kwargs, "status") => clients[i].status = tool_kwargs.status}

MatchingOrders ==
    {i \in DOMAIN orders :
        /\ HasKey(tool_kwargs, "status") => orders[i].status = tool_kwargs.status
        /\ HasKey(tool_kwargs, "client_id") =>
               orders[i].client_id = tool_kwargs.client_id.oid}

\* C13: on a non-empty collection find_clients and get_orders return exactly
\* the stored records matching the filter (possibly none), never the sample
\* payload or its note.
C13_NoSampleWhenFilled ==
    /\ (Executed("_find_clients") /\ clients # <<>>) =>
          /\ ~tool_result.note
          /\ tool_result = Listing(MatchingClients)
    /\ (Executed("_get_orders") /\ orders # <<>> /\ IdsWellFormed) =>
          /\ ~tool_result.note
          /\ tool_result = Listing(MatchingOrders)

ActiveClients == {i \in DOMAIN clients : clients[i].status = "active"}

\* C14: the studio summary returns the fixed demonstration payload with the
\* sample-data note when clients and orders are both empty, and otherwise a
\* success result with the real totals.
C14_SummarySampleOrTotals ==
    Executed("_get_summary_statistics") =>
        IF clients = <<>> /\ orders = <<>>
        THEN tool_result = SampleSummary
        ELSE /\ tool_result.kind = "json" /\ tool_result.success
             /\ ~tool_result.note
             /\ tool_result.values =
                    <<Len(clients), Cardinality(ActiveClients), Len(orders)>>

-----------------------------------------------------------------------------
(* Attendance analytics *)

\* the classes that have attendance records and nobody registered
UnregisteredClasses ==
    {c \in DOMAIN classes :
        /\ classes[c].enrolled_count = 0
        /\ \E i \in DOMAIN attendance : attendance[i].class_id = c}

\* attendance_percentage of class c in the class_details of result r
PercentageOf(r, c) ==
    LET n == CHOOSE n \in 1..Cardinality(r.ids) : Ascending(r.ids)[n] = c
    IN  r.values[n]

\* C15: attendance analytics over a class whose enrolled_count is 0 and which
\* has attendance records is a success result in which that class's
\* attendance_percentage is 0.
C15_ZeroRegisteredIsZeroPercent ==
    (Executed("_attendance_analytics")
        /\ ~HasKey(tool_kwargs, "course_name")
        /\ UnregisteredClasses # {}) =>
            /\ tool_result.kind = "json" /\ tool_result.success
            /\ \A c \in UnregisteredClasses :
                  c \in tool_result.ids /\ PercentageOf(tool_result, c) = 0

-----------------------------------------------------------------------------
(* Revenue analytics *)

\* the lookback window of the spec, in days
WindowDays ==
    IF ~HasKey(tool_kwargs, "period") THEN 30
    ELSE IF tool_kwargs.period = "week" THEN 7
    ELSE IF tool_kwargs.period = "quarter" THEN 90
    ELSE 30

InWindow(i) == payments[i].status = "completed" /\ payments[i].payment_date <= WindowDays

RECURSIVE WindowRevenue(_)
\* the sum of the amounts of the first n payments that are completed and
\* dated inside the window
WindowRevenue(n) ==
    IF n = 0 THEN 0
    ELSE (IF InWindow(n) THEN payments[n].amount ELSE 0) + WindowRevenue(n - 1)

-----------------------------------------------------------------------------
(* Payments and the orders they reference *)

\* C19: every payment references an existing order, and a process payment
\* call whose order identifier resolves to no order has returned a structured
\* success:false result.
C19_PaymentsReferenceOrders ==
    /\ \A i \in DOMAIN payments : payments[i].order_id \in DOMAIN orders
    /\ \A p \in Procs :
          (/\ args[p].action = "process_payment"
           /\ pc[p] = "idle"
           /\ locals[p].gateway = "00"
           /\ locals[p].order_id \in DOMAIN payments
           /\ payments[locals[p].order_id].order_id \notin DOMAIN orders) =>
              result[p].kind = "json" /\ ~result[p].success

-----------------------------------------------------------------------------
(* Staff assignment of enquiries *)

CreatedEnquiry(p) ==
    /\ args[p].action = "create_enquiry"
    /\ result[p].kind = "json"
    /\ result[p].success

MatchingKeys(enquiry_type) ==
    {i \in DOMAIN staff_assignments :
        Contains(lower(enquiry_type), lower(staff_assignments[i].key))}

\* C20 as stated: among the table keywords that match the enquiry type the
\* assignee is the one of the longest keyword, and "Customer Service Team"
\* when none matches.
C20_AssignedByLongestKeyword ==
    \A p \in Procs :
        CreatedEnquiry(p) =>
            LET matching == MatchingKeys(locals[p].enquiry_type)
            IN  /\ matching = {} => locals[p].assigned_to = "Customer Service Team"
                /\ \A i \in matching :
                      (\A j \in matching \ {i} :
                          Len(staff_assignments[j].key) < Len(staff_assignments[i].key))
                      => locals[p].assigned_to = staff_assignments[i].staff

\* C20 (amended): the assignee is the one of the first table keyword, in
\* table order, that occurs in the enquiry type without regard to case, and
\* "Customer Service Team" when none occurs.
C20_AssignedByFirstKeyword ==
    \A p \in Procs :
        CreatedEnquiry(p) =>
            LET matching == MatchingKeys(locals[p].enquiry_type)
            IN  /\ matching = {} => locals[p].assigned_to = "Customer Service Team"
                /\ \A i \in matching :
                      (\A j \in matching : i <= j)
                      => locals[p].assigned_to = staff_assignments[i].staff

\* an enquiry naming both pilates and yoga went to the yoga instructor
C20_Witness ==
    \E p \in Procs :
        /\ CreatedEnquiry(p)
        /\ locals[p].enquiry_type = Join(<<pilates, yoga>>)
        /\ locals[p].assigned_to = "Sarah Johnson"

-----------------------------------------------------------------------------
(* Faults stay inside the tools; queries only read *)

\* C17: no call of MongoDBTool._run or ExternalAPITool._run ends with an
\* exception: whatever the operation, its arguments and the outcome of its
\* store calls, the call has returned a JSON result or a text.
C17_NoEntryPointRaises ==
    /\ tool_result.kind \in {"none", "json", "text"}
    /\ \A p \in Procs : result[p].kind \in {"none", "json", "text"}

\* a query whose method lets the RuntimeError of an unconnected store pass
\* was answered with the text of _run
C17_Witness ==
    /\ dispatched = "_find_clients"
    /\ tool_kwargs = NoKwargs
    /\ tool_result = ToolText("Database operation failed")

Answers == [method \in Methods |-> [kw \in FaultKwargs |-> Call(method, kw, "none")]]

QueryStep == UNCHANGED <<pc, args, locals, result>> /\ budget' # budget

\* C18: a step of MongoDBTool._run leaves the six collections as they are,
\* and with them the answer of every operation called afterwards.
C18_QueriesOnlyRead ==
    [][QueryStep => (UNCHANGED store /\ Answers' = Answers)]_vars

\* a query listed the stored client and the collections are as they were
C18_Witness ==
    /\ dispatched = "_find_clients"
    /\ tool_result.kind = "json"
    /\ ~tool_result.note
    /\ tool_result.count = 1
    /\ Len(clients) = 1

-----------------------------------------------------------------------------
(* Phone numbers of concurrently created clients *)

\* C21: with the indexes of create_indexes in force no two client documents
\* share a phone number, whatever the interleaving of the create client
\* calls.
C21_UniquePhoneUnderRace ==
    uniqueEmail =>
        \A i, j \in DOMAIN clients :
            clients[i].phone = clients[j].phone => i = j

-----------------------------------------------------------------------------
(* Amounts of inserted orders *)

\* C22: every order document has amount > 0 and tax_amount >= 0, whatever
\* amount the caller supplied.
C22_InsertedOrderAmountPositive ==
    \A i \in DOMAIN orders :
        orders[i].amount > 0 /\ orders[i].tax_amount >= 0

-----------------------------------------------------------------------------
(* Enrolled services of a client *)

\* C23: no client's enrolled_services holds the same service name twice,
\* whatever the order and interleaving of the create order calls.
C23_EnrolledServicesNoDuplicate ==
    \A c \in DOMAIN clients :
        \A i, j \in DOMAIN clients[c].enrolled_services :
            clients[c].enrolled_services[i] = clients[c].enrolled_services[j] => i = j

-----------------------------------------------------------------------------
(* Reachability of attendance analytics *)

\* C24: a tool that has not been called yet has an operation string which
\* MongoDBTool._run dispatches to attendance analytics.
C24_AttendanceAnalyticsReachable ==
    dispatched = "none" =>
        \E q \in QueryInputs :
            Dispatch(_normalize_query_type(q)) = "_attendance_analytics"

-----------------------------------------------------------------------------
(* External side effects follow the write *)

NoSideEffect(p) ==
    /\ locals[p].crm = 0
    /\ locals[p].booking = 0
    /\ locals[p].email_sent = "none"

Succeeded(p) == pc[p] = "idle" /\ result[p].kind = "json" /\ result[p].success

\* C25: the CRM sync and the welcome notification have been invoked only by
\* a create client call whose insert succeeded, the booking-system sync and
\* the order confirmation only by a create order call whose insert
\* succeeded, each once; a call that is still running, was rejected or
\* failed has invoked none of them.
C25_SideEffectsFollowWrite ==
    \A p \in Procs :
        /\ locals[p].crm <= 1
        /\ locals[p].booking <= 1
        /\ ~Succeeded(p) => NoSideEffect(p)
        /\ locals[p].crm = 1 =>
              /\ args[p].action = "create_client"
              /\ Succeeded(p)
              /\ result[p].id \in DOMAIN clients
              /\ locals[p].email_sent # "none"
              /\ locals[p].booking = 0
        /\ locals[p].booking = 1 =>
              /\ args[p].action = "create_order"
              /\ Succeeded(p)
              /\ result[p].id \in DOMAIN orders
              /\ locals[p].email_sent # "none"
              /\ locals[p].crm = 0
        /\ (locals[p].email_sent # "none" /\ args[p].action = "create_client") =>
              locals[p].crm = 1
        /\ (locals[p].email_sent # "none" /\ args[p].action = "create_order") =>
              locals[p].booking = 1

\* one call created a client and synced the CRM, another was rejected by
\* the unique index and invoked nothing
C25_Witness ==
    \E p, q \in Procs :
        /\ locals[p].crm = 1
        /\ Succeeded(p)
        /\ locals[q].rejected
        /\ result[q].kind = "text"
        /\ NoSideEffect(q)

-----------------------------------------------------------------------------
(* Order lifecycle *)

\* C26: an order that is not pending (paid, cancelled or refunded) is left
\* as it is by every step: its status is never set to paid and its
\* paid_date is never written.
C26_OnlyPendingBecomesPaid ==
    [][\A i \in DOMAIN orders :
          orders[i].status # "pending" => orders'[i] = orders[i]]_vars

-----------------------------------------------------------------------------
(* Payment capture and the order's status *)

\* C27: no completed payment exists while the order it references is
\* still pending.
C27_CompletedPaymentOrderNotPending ==
    \A i \in DOMAIN payments :
        (payments[i].status = "completed" /\ payments[i].order_id \in DOMAIN orders)
            => orders[payments[i].order_id].status # "pending"

-----------------------------------------------------------------------------
(* The three writes of create order *)

\* the step in which a create order call returns something other than a
\* success result
CreateOrderFails(p) ==
    /\ args[p].action = "create_order"
    /\ pc[p] # "idle"
    /\ pc'[p] = "idle"
    /\ ~(result'[p].kind = "json" /\ result'[p].success)

\* C28: a create order call that returns anything other than a success
\* result has inserted no order and has left the enrolled_services of its
\* client as it read them.
C28_CreateOrderAllOrNothing ==
    [][\A p \in Procs :
          CreateOrderFails(p) =>
              /\ locals[p].order_id = 0
              /\ locals[p].client_id # 0 =>
                    clients'[locals[p].client_id].enrolled_services = locals[p].enrolled]_vars

-----------------------------------------------------------------------------
(* Revenue by service type *)

\* C29: in a revenue analytics result the total_revenue of the groups of
\* revenue_by_service add up to total_revenue and their order_count to the
\* number of completed payments inside the window.
C29_RevenueGroupsAddUp ==
    (Executed("_revenue_analytics") /\ tool_result.kind = "json") =>
        /\ tool_result.values[3] + tool_result.values[5] = tool_result.values[1]
        /\ tool_result.values[4] + tool_result.values[6] =
              Cardinality({i \in DOMAIN payments : InWindow(i)})

-----------------------------------------------------------------------------
(* Life of the store handle *)

\* C30: get_sync_database succeeds only while a client is connected and not
\* closed; before the first connect and after a close it fails with the
\* "not connected" error.
C30_HandleOnlyWhileConnected ==
    got.outcome # "none" =>
        (got.outcome = "database" <=> got.met = "open")

=============================================================================
